---- MODULE Spec2Model ----
(***************************************************************************)
(* Model of src/Arabycia.py: the class Arabica, which drives an external   *)
(* morphological analyzer (pyaramorph), a stemmer (nltk ISRIStemmer) and a  *)
(* Buckwalter transliteration table, and reshapes their output.            *)
(*                                                                         *)
(* Python values are modelled as follows:                                  *)
(*   - a raw text is a string; the analyzer's tokenisation of it is the    *)
(*     table Tokens;                                                       *)
(*   - a candidate solution is a dict with string keys = a TLA+ record;    *)
(*   - a 'solution' string is the sequence of its characters, so that the  *)
(*     positional access sol[2] is Index0(sol, 2);                         *)
(*   - a raised exception is recorded in err and ends the call.            *)
(* Arabic-script strings are written in upper case, their Buckwalter       *)
(* (Latin) transliterations in lower case.                                 *)
(***************************************************************************)
EXTENDS Integers, Sequences, FiniteSets, TLC

VARIABLES
  constructed,        \* the Arabica objects that exist
  raw_data,           \* self.raw_data of each object (None: the class attribute)
  full_analyzed_data, \* self.full_analyzed_data of each object
  processed_data,     \* self.processed_data of each object
  analyzed_data,      \* Arabica.analyzed_data: the one list of the class
  ambig_words,        \* Arabica.ambig_words: the one list of the class
  last_op,            \* <<method, object, search key>> of the most recent call
  prev_op,            \* <<method, object>> of the call before it
  err,                \* the exception the most recent call raised, or "none"
  ret                 \* the set returned by the most recent search()

vars == <<constructed, raw_data, full_analyzed_data, processed_data,
          analyzed_data, ambig_words, last_op, prev_op, err, ret>>

\* Cap on the length of the ambig_words list (it grows without bound).
MaxAmbig == 4

\* ------------------------------------------------------------------------
\* Python helpers
\* ------------------------------------------------------------------------

\* The value of an attribute that was never assigned: raw_data = None.
None == "<None>"

\* seq[k] with Python's 0-based subscript.
Index0(seq, k) == seq[k + 1]

\* set(list)
Range(seq) == { seq[k] : k \in 1..Len(seq) }

\* A dict subscript d[k] raises KeyError unless k is a key of d.  Keys are
\* written as strings; the integer key 0 is written "0".
IntKey(n) == IF n = 0 THEN "0" ELSE "int"

HasKey(d, k) == k \in DOMAIN d

\* ------------------------------------------------------------------------
\* The external collaborators, as tables over a small vocabulary
\* ------------------------------------------------------------------------

\* The module-level objects: `arab` of the script, and one made by a caller.
Instances == {"arab", "user"}

\* Raw texts a caller may supply.
Texts == {"", "MN", "KTB MN", "ZZ KTB", "MN FY ZZ"}

\* Search keys a caller may supply.
Keys == {"KATABA", "ZZ"}

\* The analyzer's tokenisation of a raw text.
Tokens(text) ==
  CASE text = ""         -> <<>>
    [] text = "MN"       -> <<"MN">>
    [] text = "KTB MN"   -> <<"KTB", "MN">>
    [] text = "ZZ KTB"   -> <<"ZZ", "KTB">>
    [] text = "MN FY ZZ" -> <<"MN", "FY", "ZZ">>
    [] OTHER             -> <<text>>

Cand(ar, tr, sol, p, g) ==
  [arabic |-> ar, transl |-> tr, solution |-> sol, pos |-> p, gloss |-> g]

\* The analyzer's candidate solutions of one token:
\*   ZZ  is unknown to the lexicon (no candidate);
\*   FY  has one candidate;
\*   KTB has two candidates that differ at position 1 of the solution
\*       string and agree at position 2;
\*   MN  has three candidates that disagree at position 2.
Lexicon(tok) ==
  CASE tok = "ZZ"  -> <<>>
    [] tok = "FY"  -> << Cand("FIY", "fiy", <<"f", "i", "p">>, "PREP", "in") >>
    [] tok = "KTB" -> << Cand("KATABA", "kataba", <<"k", "a", "v">>, "VERB", "write"),
                         Cand("KUTIBA", "kutiba", <<"k", "u", "v">>, "VERB", "be written") >>
    [] tok = "MN"  -> << Cand("MIN", "min", <<"m", "i", "p">>, "PREP", "from"),
                         Cand("MAN", "man", <<"m", "a", "n">>, "PRON", "who"),
                         Cand("MUN", "mun", <<"m", "u", "p">>, "NOUN", "grace") >>
    [] OTHER       -> <<>>

\* The second element of the analyzer's result: raw root candidates.
Secondary(text) ==
  CASE text = "KATABA" -> <<"ktb">>
    [] text = "MIN"    -> <<"mn", "myn">>
    [] OTHER           -> <<>>

\* pyaramorph.Analyzer.analyze_text(text), for a text that is a string.
Analyzer_analyze_text(text) ==
  << [k \in 1..Len(Tokens(text)) |-> Lexicon(Tokens(text)[k])], Secondary(text) >>

\* nltk.ISRIStemmer.stem(word)
ISRI_stem(word) ==
  CASE word = "KATABA" -> "KTB"
    [] word = "KUTIBA" -> "KTB"
    [] word = "MIN"    -> "MN"
    [] word = "MAN"    -> "MN"
    [] word = "MUN"    -> "MN"
    [] word = "FIY"    -> "FY"
    [] OTHER           -> word

\* pyaramorph.buckwalter.uni2buck
uni2buck(s) ==
  CASE s = "KTB" -> "ktb"
    [] s = "MN"  -> "mn"
    [] s = "FY"  -> "fy"
    [] s = "ZZ"  -> "zz"
    [] OTHER     -> "?"

\* pyaramorph.buckwalter.buck2uni
buck2uni(s) ==
  CASE s = "ktb" -> "KTB"
    [] s = "mn"  -> "MN"
    [] s = "myn" -> "MYN"
    [] OTHER     -> "?"

\* ------------------------------------------------------------------------
\* Pure methods of Arabica
\* ------------------------------------------------------------------------

transliteration(s) == uni2buck(s)

reverse_transliteration(s) == buck2uni(s)

stem(word) == ISRI_stem(word)

\* pam_stem: the analyzer's secondary entries of the isolated word, each
\* transliterated back to Arabic.
pam_stem(word) ==
  LET data == Analyzer_analyze_text(word)[2]
  IN  [k \in 1..Len(data) |-> reverse_transliteration(data[k])]

\* The inner loops of data_process for one token: walk the candidates in
\* order and, for each (k, v) of a candidate, overwrite eg/ar or append to
\* solution/pos/gloss.
RECURSIVE ProcessCandidates(_, _, _)
ProcessCandidates(cands, i, acc) ==
  IF i = Len(cands) THEN acc
  ELSE LET c == Index0(cands, i)
           K == DOMAIN c
       IN  ProcessCandidates(cands, i + 1,
             [transl   |-> IF "transl" \in K THEN c.transl ELSE acc.transl,
              arabic   |-> IF "arabic" \in K THEN c.arabic ELSE acc.arabic,
              solution |-> IF "solution" \in K THEN Append(acc.solution, c.solution)
                                               ELSE acc.solution,
              pos      |-> IF "pos" \in K THEN Append(acc.pos, c.pos) ELSE acc.pos,
              gloss    |-> IF "gloss" \in K THEN Append(acc.gloss, c.gloss)
                                            ELSE acc.gloss])

\* The values data_process starts each token with.
Empty == [transl |-> "", arabic |-> "", solution |-> <<>>, pos |-> <<>>, gloss |-> <<>>]

\* data_process with pos kept as a scalar like transl and arabic (only the
\* last tag survives).
ProcessToken_PosOverwritten(cands) ==
  LET r == ProcessCandidates(cands, 0, Empty)
  IN  [r EXCEPT !.pos = IF r.pos = <<>> THEN <<>> ELSE << r.pos[Len(r.pos)] >>]

\* data_process with transl and arabic set once, by the first candidate.
ProcessToken_FirstWins(cands) ==
  LET r == ProcessCandidates(cands, 0, Empty)
  IN  IF cands = <<>> THEN r
      ELSE [r EXCEPT !.arabic = cands[1].arabic, !.transl = cands[1].transl]

\* The record `temp` data_process builds for one token.
ProcessToken(cands) ==
  ProcessCandidates(cands, 0, Empty)

\* The list `all` data_process builds from the full analysis.
Reshape(data) == [ele \in 1..Len(data) |-> ProcessToken(data[ele])]

\* data_process extending the previous list instead of starting from all = [].
data_process_Appends(self) ==
  processed_data' = [processed_data EXCEPT
    ![self] = processed_data[self] \o Reshape(full_analyzed_data'[self])]

\* data_process(self): self.processed_data = all, computed from the value
\* analyze_text has just stored in self.full_analyzed_data.
data_process(self) ==
  processed_data' = [processed_data EXCEPT ![self] = Reshape(full_analyzed_data'[self])]

\* ------------------------------------------------------------------------
\* Initial state: the module has been imported, which runs the script at
\* its end: arab = Arabica(text); arab.analyze_text(); arab.ambig().
\* ------------------------------------------------------------------------

\* `len(set(temp)) > 1` with the mistake of counting the candidates instead
\* of their distinct values.
IsAmbiguous_CountsCandidates(temp) == Len(temp) > 1

\* self.analyzed_data and self.ambig_words: no method assigns these
\* attributes on the object (they are only appended to), so the lookup
\* through any object yields the list of the class.
self_analyzed_data(self) == analyzed_data

self_ambig_words(self) == ambig_words

\* The test of ambig: len(set(temp)) > 1.
IsAmbiguous(temp) == Cardinality(Range(temp)) > 1

\* The loop of ambig over a processed-record list, from index i, with the
\* list self.ambig_words so far in acc.
RECURSIVE AmbigLoop(_, _, _)
AmbigLoop(pd, i, acc) ==
  IF i = Len(pd) THEN acc
  ELSE LET w    == Index0(pd, i)
           temp == [k \in 1..Len(w.solution) |-> Index0(w.solution[k], 2)]
       IN  AmbigLoop(pd, i + 1,
             IF IsAmbiguous(temp) THEN Append(acc, w.arabic) ELSE acc)

Init ==
  \E text \in Texts :
    /\ constructed = {"arab"}
    /\ raw_data = [i \in Instances |-> IF i = "arab" THEN text ELSE None]
    /\ full_analyzed_data =
         [i \in Instances |-> IF i = "arab" THEN Analyzer_analyze_text(text)[1] ELSE <<>>]
    /\ processed_data =
         [i \in Instances |-> IF i = "arab" THEN Reshape(Analyzer_analyze_text(text)[1])
                                            ELSE <<>>]
    /\ analyzed_data = <<>>
    /\ ambig_words = AmbigLoop(Reshape(Analyzer_analyze_text(text)[1]), 0, <<>>)
    /\ last_op = <<"ambig", "arab", "">>
    /\ prev_op = <<"analyze_text", "arab">>
    /\ err = "none"
    /\ ret = {}

\* ------------------------------------------------------------------------
\* Operations
\* ------------------------------------------------------------------------

\* Arabica(raw_data): a new object; its raw_data is set only when given, its
\* other data attributes are the class attributes until assigned.
Arabica_init(self, raw) ==
  /\ self # "arab"
  /\ constructed' = constructed \cup {self}
  /\ raw_data' = [raw_data EXCEPT ![self] = raw]
  /\ full_analyzed_data' = [full_analyzed_data EXCEPT ![self] = <<>>]
  /\ processed_data' = [processed_data EXCEPT ![self] = <<>>]
  /\ last_op' = <<"__init__", self, "">>
  /\ prev_op' = <<last_op[1], last_op[2]>>
  /\ err' = "none"
  /\ ret' = {}
  /\ UNCHANGED <<analyzed_data, ambig_words>>

\* obj.raw_data = text, by the caller.
SetRawData(self, text) ==
  /\ self \in constructed
  /\ raw_data' = [raw_data EXCEPT ![self] = text]
  /\ last_op' = <<"raw_data=", self, "">>
  /\ prev_op' = <<last_op[1], last_op[2]>>
  /\ err' = "none"
  /\ ret' = {}
  /\ UNCHANGED <<constructed, full_analyzed_data, processed_data, analyzed_data,
                 ambig_words>>

\* analyzer.analyze_text(self.raw_data) is called with self.raw_data whatever
\* it is: there is no check for None in analyze_text, and the failure on None
\* is the analyzer's own.
AnalyzerRaises(self) == raw_data[self] = None

\* The body of analyze_text when the analyzer returns: store data[0], reshape.
AnalyzeBody(self) ==
  IF AnalyzerRaises(self)
  THEN UNCHANGED <<full_analyzed_data, processed_data>>
  ELSE /\ full_analyzed_data' =
            [full_analyzed_data EXCEPT ![self] = Analyzer_analyze_text(raw_data[self])[1]]
       /\ data_process(self)

analyze_text(self) ==
  /\ self \in constructed
  /\ AnalyzeBody(self)
  /\ err' = IF AnalyzerRaises(self) THEN "AnalyzerError" ELSE "none"
  /\ last_op' = <<"analyze_text", self, "">>
  /\ prev_op' = <<last_op[1], last_op[2]>>
  /\ ret' = {}
  /\ UNCHANGED <<constructed, raw_data, analyzed_data, ambig_words>>

\* The loop of extract_data over `data`, from index i, with the list
\* self.analyzed_data so far in acc.  data[i] is subscripted by 0 first; a
\* record appended before an exception stays appended.
RECURSIVE ExtractLoop(_, _, _)
ExtractLoop(data, i, acc) ==
  IF i = Len(data) THEN [raised |-> "none", out |-> acc]
  ELSE IF ~ HasKey(Index0(data, i), IntKey(0))
       THEN [raised |-> "KeyError", out |-> acc]
       ELSE LET first         == Index0(data, i)[IntKey(0)]
                tans          == first["transl"]
                word          == first["arabic"]
                root          == stem(first["arabic"])
                possible_root == pam_stem(word)
                rtrans        == transliteration(root)
            IN  ExtractLoop(data, i + 1,
                  Append(acc, [arabic |-> word, transl |-> tans, root |-> root,
                               root_transl |-> rtrans, candidates |-> possible_root]))

\* `data, _ = self.analyze_text()`: the returned full analysis (one entry per
\* token) is unpacked into exactly two names, which raises ValueError unless
\* it has exactly two entries; `data` is then the first token's candidates.
ExtractOutcome(self) ==
  IF AnalyzerRaises(self) THEN [raised |-> "AnalyzerError", out |-> analyzed_data]
  ELSE LET full == Analyzer_analyze_text(raw_data[self])[1]
       IN  IF Len(full) # 2 THEN [raised |-> "ValueError", out |-> analyzed_data]
           ELSE ExtractLoop(Index0(full, 0), 0, analyzed_data)

extract_data(self) ==
  /\ self \in constructed
  /\ AnalyzeBody(self)
  /\ analyzed_data' = ExtractOutcome(self).out
  /\ err' = ExtractOutcome(self).raised
  /\ last_op' = <<"extract_data", self, "">>
  /\ prev_op' = <<last_op[1], last_op[2]>>
  /\ ret' = {}
  /\ UNCHANGED <<constructed, raw_data, ambig_words>>

\* The set search returns, given the list extract_data returned.
SearchResult(data, k) ==
  { data[i].arabic : i \in { j \in 1..Len(data) : data[j].root_transl = k } }

search(self, key) ==
  /\ self \in constructed
  /\ AnalyzeBody(self)
  /\ analyzed_data' = ExtractOutcome(self).out
  /\ err' = ExtractOutcome(self).raised
  /\ ret' = IF ExtractOutcome(self).raised = "none"
            THEN SearchResult(ExtractOutcome(self).out, transliteration(stem(key)))
            ELSE {}
  /\ last_op' = <<"search", self, key>>
  /\ prev_op' = <<last_op[1], last_op[2]>>
  /\ UNCHANGED <<constructed, raw_data, ambig_words>>

\* ambig(self): appends to the list of the class.
ambig(self) ==
  /\ self \in constructed
  /\ Len(AmbigLoop(processed_data[self], 0, ambig_words)) <= MaxAmbig
  /\ ambig_words' = AmbigLoop(processed_data[self], 0, ambig_words)
  /\ last_op' = <<"ambig", self, "">>
  /\ prev_op' = <<last_op[1], last_op[2]>>
  /\ err' = "none"
  /\ ret' = {}
  /\ UNCHANGED <<constructed, raw_data, full_analyzed_data, processed_data,
                 analyzed_data>>

Next ==
  \/ \E self \in Instances, raw \in Texts \cup {None} : Arabica_init(self, raw)
  \/ \E self \in Instances, text \in Texts : SetRawData(self, text)
  \/ \E self \in Instances : analyze_text(self)
  \/ \E self \in Instances : extract_data(self)
  \/ \E self \in Instances, key \in Keys : search(self, key)
  \/ \E self \in Instances : ambig(self)

Spec == Init /\ [][Next]_vars

\* ------------------------------------------------------------------------
\* Properties
\* ------------------------------------------------------------------------

\* The candidates the analyzer produces for token e (1-based) of a text.
CandidatesOf(text, e) == Lexicon(Tokens(text)[e])

\* A processed record whose solution strings take more than one distinct
\* value at position 2.
Disagrees(w) == Cardinality({ Index0(w.solution[k], 2) : k \in 1..Len(w.solution) }) > 1

\* The surface forms of the disagreeing records of a list, in record order.
DisagreeingForms(pd) ==
  LET sel == SelectSeq(pd, Disagrees) IN [k \in 1..Len(sel) |-> sel[k].arabic]

\* Every token of the text has at least one candidate, and there is a token.
AllHaveCandidates(text) ==
  /\ text # None
  /\ Len(Tokens(text)) >= 1
  /\ \A e \in 1..Len(Tokens(text)) : CandidatesOf(text, e) # <<>>

\* Some token of the text has no candidate.
SomeHasNone(text) ==
  /\ text # None
  /\ \E e \in 1..Len(Tokens(text)) : CandidatesOf(text, e) = <<>>

\* The four fields an extracted record of token e is specified to carry.
ExpectedFields(text, e) ==
  LET c == CandidatesOf(text, e)[1]
  IN  [arabic |-> c.arabic, transl |-> c.transl, root |-> stem(c.arabic),
       root_transl |-> transliteration(stem(c.arabic))]

FieldsOf(r) ==
  [arabic |-> r.arabic, transl |-> r.transl, root |-> r.root, root_transl |-> r.root_transl]

\* One specified record per token, in token order.
ExpectedRecords(text) == [e \in 1..Len(Tokens(text)) |-> ExpectedFields(text, e)]

\* The last n entries of a list, with the four specified fields of each.
LastFields(list, n) ==
  [k \in 1..n |-> FieldsOf(list[Len(list) - n + k])]

\* C1: in every state, each processed record of each object has as many
\* solution, pos and gloss entries as the analyzer produced candidates for
\* the record's token.
C1_FieldCount ==
  \A i \in constructed :
    /\ Len(processed_data[i]) = Len(full_analyzed_data[i])
    /\ \A e \in 1..Len(processed_data[i]) :
         LET r == processed_data[i][e]
             n == Len(full_analyzed_data[i][e])
         IN  Len(r.solution) = n /\ Len(r.pos) = n /\ Len(r.gloss) = n

\* C1 witness: an analysis just reshaped holds tokens with three, one and no
\* candidate.
C1_Witness ==
  \E i \in constructed :
    /\ last_op = <<"analyze_text", i, "">>
    /\ Len(processed_data[i]) = 3
    /\ Len(processed_data[i][1].pos) = 3
    /\ Len(processed_data[i][2].pos) = 1
    /\ Len(processed_data[i][3].pos) = 0

\* C2 as claimed: after analyze_text followed by ambig on an object, a
\* surface form is in ambig_words if and only if a record of that object
\* with that surface form has disagreeing candidates.  Stated for the runs
\* in which that object is the only one there is.
C2_IffAfterPass ==
  (/\ constructed = {last_op[2]}
   /\ last_op[1] = "ambig"
   /\ prev_op = <<"analyze_text", last_op[2]>>
   /\ raw_data[last_op[2]] # None)
  => LET pd == processed_data[last_op[2]]
     IN  \A s \in Range(ambig_words) \cup { pd[e].arabic : e \in 1..Len(pd) } :
           (s \in Range(ambig_words))
             <=> (\E e \in 1..Len(pd) : pd[e].arabic = s /\ Disagrees(pd[e]))

\* C2 amended: an ambig call that follows analyze_text on the same object
\* appends exactly the surface forms of that object's disagreeing records,
\* in record order, and keeps every earlier entry of the list.
C2_AppendedExactly ==
  [][ (/\ last_op[1] = "analyze_text"
       /\ err = "none"
       /\ last_op'[1] = "ambig"
       /\ last_op'[2] = last_op[2])
      => ambig_words' = ambig_words \o DisagreeingForms(processed_data[last_op[2]]) ]_vars

\* C2 witness: ambig has just followed the analysis of "KTB MN" (one agreeing
\* token, one disagreeing token) and the list also holds older entries.
C2_Witness ==
  /\ last_op[1] = "ambig"
  /\ prev_op = <<"analyze_text", last_op[2]>>
  /\ raw_data[last_op[2]] = "KTB MN"
  /\ Len(ambig_words) >= 2
  /\ "KUTIBA" \notin Range(ambig_words)

\* C3 as claimed: search on an object that has a raw text returns, without
\* raising, the surface forms of the extracted records whose root_transl is
\* the transliterated stem of the key.
C3_SearchReturns ==
  (last_op[1] = "search" /\ raw_data[last_op[2]] # None)
  => /\ err = "none"
     /\ ret = SearchResult(analyzed_data, transliteration(stem(last_op[3])))

\* C4 as claimed: extract_data on a text whose n >= 1 tokens all have a
\* candidate completes and appends the n specified records in token order.
C4_ExtractAppends ==
  [][ (last_op'[1] = "extract_data" /\ AllHaveCandidates(raw_data[last_op'[2]]))
      => LET text == raw_data[last_op'[2]]
             n    == Len(Tokens(text))
         IN  /\ err' = "none"
             /\ Len(analyzed_data') = Len(analyzed_data) + n
             /\ SubSeq(analyzed_data', 1, Len(analyzed_data)) = analyzed_data
             /\ LastFields(analyzed_data', n) = ExpectedRecords(text) ]_vars

\* C5 as claimed: after two consecutive extract_data calls on one object
\* (same raw text, no reset between them) the list ends with two full copies
\* of the text's records.
C5_TwoCopies ==
  (/\ last_op[1] = "extract_data"
   /\ prev_op = <<"extract_data", last_op[2]>>
   /\ AllHaveCandidates(raw_data[last_op[2]]))
  => LET text == raw_data[last_op[2]]
         n    == Len(Tokens(text))
     IN  /\ err = "none"
         /\ Len(analyzed_data) >= 2 * n
         /\ LastFields(analyzed_data, 2 * n) = ExpectedRecords(text) \o ExpectedRecords(text)

\* C6 as claimed: extract_data on a text with a token that has no candidate
\* raises nothing, and every token that has a candidate gets its record.
C6_ZeroCandidatesHandled ==
  (last_op[1] = "extract_data" /\ SomeHasNone(raw_data[last_op[2]]))
  => LET text == raw_data[last_op[2]]
     IN  /\ err = "none"
         /\ \A e \in 1..Len(Tokens(text)) :
              CandidatesOf(text, e) # <<>>
                => \E k \in 1..Len(analyzed_data) :
                     FieldsOf(analyzed_data[k]) = ExpectedFields(text, e)

\* C7 as claimed: analyze_text, extract_data and search on an object without
\* raw text fail with the component's own "no input provided" error, raised
\* before the analyzer is called, and leave the cached state unchanged.
C7_NoInputError ==
  [][ (/\ last_op'[1] \in {"analyze_text", "extract_data", "search"}
       /\ raw_data[last_op'[2]] = None)
      => /\ err' = "InputError"
         /\ UNCHANGED <<full_analyzed_data, processed_data, analyzed_data, ambig_words>> ]_vars

\* C8: an analyze_text call that returns leaves the object's processed_data
\* with one record per token of the text just analyzed, record e holding the
\* solutions of token e and nothing of an earlier pass, and leaves
\* analyzed_data and ambig_words as they were.
C8_AnalyzeOverwrites ==
  [][ (last_op'[1] = "analyze_text" /\ err' = "none")
      => LET i    == last_op'[2]
             text == raw_data[i]
             pd   == processed_data'[i]
         IN  /\ Len(pd) = Len(Tokens(text))
             /\ \A e \in 1..Len(pd) :
                  /\ e <= Len(Tokens(text))
                  /\ pd[e].solution =
                       [k \in 1..Len(CandidatesOf(text, e)) |-> CandidatesOf(text, e)[k].solution]
             /\ analyzed_data' = analyzed_data
             /\ ambig_words' = ambig_words ]_vars

\* C8 witness: `arab`, the only object, has just re-analyzed the two-token
\* text "ZZ KTB", while ambig_words still holds an entry of its earlier pass
\* over a text with the token MN.
C8_Witness ==
  /\ constructed = {"arab"}
  /\ last_op = <<"analyze_text", "arab", "">>
  /\ err = "none"
  /\ raw_data["arab"] = "ZZ KTB"
  /\ Len(processed_data["arab"]) = 2
  /\ ambig_words # <<>>

\* The candidates of a list that carry field f, in candidate order.
Carrying(cands, f) == SelectSeq(cands, LAMBDA c : f \in DOMAIN c)

\* C9: in every state, each processed record's arabic and transl are those
\* of the last candidate carrying the field ("" when none does), and its
\* solution, pos and gloss list the values of the candidates carrying the
\* field, in candidate order.
C9_ScalarLastListAll ==
  \A i \in constructed :
    \A e \in 1..Len(processed_data[i]) :
      /\ e <= Len(full_analyzed_data[i])
      /\ LET r     == processed_data[i][e]
             cands == full_analyzed_data[i][e]
             ar    == Carrying(cands, "arabic")
             tr    == Carrying(cands, "transl")
             so    == Carrying(cands, "solution")
             po    == Carrying(cands, "pos")
             gl    == Carrying(cands, "gloss")
         IN  /\ r.arabic = IF ar = <<>> THEN "" ELSE ar[Len(ar)].arabic
             /\ r.transl = IF tr = <<>> THEN "" ELSE tr[Len(tr)].transl
             /\ r.solution = [k \in 1..Len(so) |-> so[k].solution]
             /\ r.pos = [k \in 1..Len(po) |-> po[k].pos]
             /\ r.gloss = [k \in 1..Len(gl) |-> gl[k].gloss]

\* C9 witness: an analysis just reshaped holds a token whose three candidates
\* differ in arabic and transl, and a token without candidates.
C9_Witness ==
  \E i \in constructed :
    \E e, z \in 1..Len(processed_data[i]) :
      /\ last_op = <<"analyze_text", i, "">>
      /\ Len(full_analyzed_data[i][e]) = 3
      /\ full_analyzed_data[i][e][1].arabic # full_analyzed_data[i][e][3].arabic
      /\ full_analyzed_data[i][e][1].transl # full_analyzed_data[i][e][3].transl
      /\ processed_data[i][e].arabic = "MUN"
      /\ full_analyzed_data[i][z] = <<>>
      /\ processed_data[i][z].arabic = ""

\* C10 as claimed: a newly constructed object sees empty analyzed_data and
\* ambig_words, and extract_data or ambig on one object changes none of the
\* analyzed_data, ambig_words and processed_data seen through another.
C10_Isolated ==
  [][ /\ \A i \in Instances :
           (last_op'[1] = "__init__" /\ last_op'[2] = i)
             => (self_analyzed_data(i)' = <<>> /\ self_ambig_words(i)' = <<>>)
      /\ \A j \in constructed :
           (last_op'[1] \in {"extract_data", "ambig"} /\ last_op'[2] # j)
             => /\ self_analyzed_data(j)' = self_analyzed_data(j)
                /\ self_ambig_words(j)' = self_ambig_words(j)
                /\ processed_data'[j] = processed_data[j] ]_vars

====
